---- MODULE Spec2Model ----
(***************************************************************************)
(* Run identification and run mutation of comment-on-docx:                 *)
(*   scripts/read_document_runs.py   (the reader: numbers the runs)        *)
(*   scripts/docx_comment_helper.py  (the commenter: locates, splits,      *)
(*                                    comments, batches)                   *)
(*                                                                         *)
(* A text is a sequence of characters.  The character "Idot" stands for    *)
(* U+0130 (capital I with dot above) and "dot" for U+0307 (combining dot   *)
(* above): Python's str.lower() maps U+0130 to the two characters          *)
(* "i" U+0307, so lower() can change the length of a text.                 *)
(*                                                                         *)
(* An XML element is a record                                              *)
(*   [tag, id, text, attr, rows, kids]                                     *)
(* id    the identity of the element (what Python's `is` / id() compares)  *)
(* text  for a run: findtext('w:t', default='')                            *)
(* attr  for a run: its w:rPr ("" when absent); for a hyperlink: its r:id; *)
(*       for an sdt: "toc" when sdtPr holds a docPartObj                   *)
(* rows  for a table: what tbl.rows / row.cells report, a grid of indexes  *)
(*       into kids (a merged cell is reported at several grid positions)   *)
(* kids  the children in storage order (for a table: its distinct cells;   *)
(*       for an sdt: the children of its sdtContent)                       *)
(***************************************************************************)
EXTENDS Integers, Sequences, FiniteSets, TLC

VARIABLES doc, pc, listing, found, batch, queue, orig, applied, last,
          comments, successes, failures, result, nextId

vars == <<doc, pc, listing, found, batch, queue, orig, applied, last,
          comments, successes, failures, result, nextId>>

\* ------------------------------------------------------------------ bounds

\* The largest number of requests in one batch.
MaxBatch == 2

\* The largest number of run IDs in one request.
MaxRange == 2

\* ------------------------------------------------------------------ texts

Min(a, b) == IF a < b THEN a ELSE b

RECURSIVE Flatten(_)
Flatten(ss) == IF ss = <<>> THEN <<>> ELSE Head(ss) \o Flatten(Tail(ss))

\* str.lower() of one character.
lower_char(c) ==
  CASE c = "A" -> <<"a">>
    [] c = "B" -> <<"b">>
    [] c = "Idot" -> <<"i", "dot">>
    [] OTHER -> <<c>>

\* str.lower()
lower(s) == Flatten([i \in 1..Len(s) |-> lower_char(s[i])])

\* Python's s[lo:hi] for 0 <= lo, 0 <= hi: the indexes are clipped to len(s).
Slice(s, lo, hi) ==
  LET l == Min(lo, Len(s))
      h == Min(hi, Len(s))
  IN  IF l >= h THEN <<>> ELSE SubSeq(s, l + 1, h)

RECURSIVE find_from(_, _, _)
find_from(hay, needle, i) ==
  IF i + Len(needle) > Len(hay) THEN -1
  ELSE IF SubSeq(hay, i + 1, i + Len(needle)) = needle THEN i
  ELSE find_from(hay, needle, i + 1)

\* str.find(): the 0-based index of the first occurrence, or -1.
str_find(hay, needle) == find_from(hay, needle, 0)

Whitespace == {" "}

RECURSIVE lstrip(_)
lstrip(s) ==
  IF s # <<>> /\ Head(s) \in Whitespace THEN lstrip(Tail(s)) ELSE s

RECURSIVE rstrip(_)
rstrip(s) ==
  IF s # <<>> /\ s[Len(s)] \in Whitespace
  THEN rstrip(SubSeq(s, 1, Len(s) - 1)) ELSE s

\* str.strip()
strip(s) == rstrip(lstrip(s))

\* ------------------------------------------------------------------ the tree

Node(tag, id, text, attr, rows, kids) ==
  [tag |-> tag, id |-> id, text |-> text, attr |-> attr, rows |-> rows,
   kids |-> kids]

\* The absent element (Python's None).
NoNode == Node("none", -1, <<>>, "", <<>>, <<>>)

R(id, text, rPr) == Node("r", id, text, rPr, <<>>, <<>>)
Hyperlink(id, rid, kids) == Node("hyperlink", id, <<>>, rid, <<>>, kids)
Ins(id, kids) == Node("ins", id, <<>>, "", <<>>, kids)
Del(id, kids) == Node("del", id, <<>>, "", <<>>, kids)
P(id, kids) == Node("p", id, <<>>, "", <<>>, kids)
Tc(id, paras) == Node("tc", id, <<>>, "", <<>>, paras)
Tbl(id, rows, cells) == Node("tbl", id, <<>>, "", rows, cells)
Sdt(id, docPart, content) == Node("sdt", id, <<>>, docPart, <<>>, content)

\* element.findall('w:r'): the direct children that are runs.
findall_r(elem) == SelectSeq(elem.kids, LAMBDA k : k.tag = "r")

\* cell.paragraphs: the direct children of the cell that are paragraphs.
cell_paragraphs(tc) == SelectSeq(tc.kids, LAMBDA k : k.tag = "p")

\* The relationship part: r:id -> URL ("" is None).
hyperlink_rels(rid) == IF rid = "rId1" THEN "http://x" ELSE ""

\* table_info of a body paragraph (None).
NoTable == <<>>

\* ------------------------------------------------- commenter: the traversal

\* _yield_runs that recurses into del as it does into ins.
RECURSIVE helper_yield_runs_with_deleted(_)
helper_yield_runs_with_deleted(container) ==
  IF container = <<>> THEN <<>>
  ELSE LET child == Head(container)
           here ==
             CASE child.tag = "r" -> <<[run |-> child, hyp |-> FALSE]>>
               [] child.tag = "hyperlink" ->
                    [i \in 1..Len(findall_r(child)) |->
                       [run |-> findall_r(child)[i], hyp |-> TRUE]]
               [] child.tag \in {"ins", "del"} ->
                    helper_yield_runs_with_deleted(child.kids)
               [] OTHER -> <<>>
       IN  here \o helper_yield_runs_with_deleted(Tail(container))

\* _iter_all_runs._yield_runs of docx_comment_helper.py over the children of
\* a container: (run_element, is_hyperlink) pairs.
RECURSIVE helper_yield_runs(_)
helper_yield_runs(container) ==
  IF container = <<>> THEN <<>>
  ELSE LET child == Head(container)
           here ==
             CASE child.tag = "r" -> <<[run |-> child, hyp |-> FALSE]>>
               [] child.tag = "hyperlink" ->
                    [i \in 1..Len(findall_r(child)) |->
                       [run |-> findall_r(child)[i], hyp |-> TRUE]]
               [] child.tag = "ins" -> helper_yield_runs(child.kids)
               [] OTHER -> <<>>
       IN  here \o helper_yield_runs(Tail(container))

helper_iter_all_runs(para) == helper_yield_runs(para.kids)

\* The cells of one table row from column col_idx on, skipping every cell
\* whose identity is in seen_tc; seen_tc starts empty in every row.
RECURSIVE helper_row_paragraphs(_, _, _, _)
helper_row_paragraphs(tbl, row_idx, col_idx, seen_tc) ==
  LET row == tbl.rows[row_idx + 1]
  IN  IF col_idx >= Len(row) THEN <<>>
      ELSE LET cell == tbl.kids[row[col_idx + 1]]
               tc_id == cell.id
               paras == cell_paragraphs(cell)
           IN  IF tc_id \in seen_tc
               THEN helper_row_paragraphs(tbl, row_idx, col_idx + 1, seen_tc)
               ELSE [i \in 1..Len(paras) |->
                       [para |-> paras[i],
                        tinfo |-> <<row_idx, col_idx, Len(tbl.rows),
                                    Len(tbl.rows[1])>>]]
                    \o helper_row_paragraphs(tbl, row_idx, col_idx + 1,
                                             seen_tc \cup {tc_id})

helper_table_paragraphs(tbl) ==
  Flatten([r \in 1..Len(tbl.rows) |-> helper_row_paragraphs(tbl, r - 1, 0, {})])

\* _iter_document_paragraphs of docx_comment_helper.py: (Paragraph,
\* table_info) for the p and tbl children of the body; any other child
\* (an sdt among them) yields nothing.
helper_iter_document_paragraphs(body) ==
  Flatten([i \in 1..Len(body) |->
    CASE body[i].tag = "p" -> <<[para |-> body[i], tinfo |-> NoTable]>>
      [] body[i].tag = "tbl" -> helper_table_paragraphs(body[i])
      [] OTHER -> <<>>])

\* Every (paragraph, run_elem, is_hyp) in the order of the two nested loops
\* of find_run_by_global_id.
helper_all_runs(body) ==
  LET paras == helper_iter_document_paragraphs(body)
  IN  Flatten([i \in 1..Len(paras) |->
        LET rs == helper_iter_all_runs(paras[i].para)
        IN  [j \in 1..Len(rs) |->
               [found |-> TRUE, para |-> paras[i].para.id,
                run |-> rs[j].run, hyp |-> rs[j].hyp]]])

\* (None, None, None)
NotFound == [found |-> FALSE, para |-> -1, run |-> NoNode, hyp |-> FALSE]

\* scan_runs with ">=" for "==": an ID below the counter gets the first run.
RECURSIVE scan_runs_at_least(_, _, _)
scan_runs_at_least(runs, run_counter, global_run_id) ==
  IF runs = <<>> THEN NotFound
  ELSE IF run_counter >= global_run_id THEN Head(runs)
  ELSE scan_runs_at_least(Tail(runs), run_counter + 1, global_run_id)

RECURSIVE scan_runs(_, _, _)
scan_runs(runs, run_counter, global_run_id) ==
  IF runs = <<>> THEN NotFound
  ELSE IF run_counter = global_run_id THEN Head(runs)
  ELSE scan_runs(Tail(runs), run_counter + 1, global_run_id)

find_run_by_global_id(body, global_run_id) ==
  scan_runs(helper_all_runs(body), 0, global_run_id)

\* ---------------------------------------------------- reader: the traversal

\* iter_all_runs._yield_runs of read_document_runs.py:
\* (run_element, is_hyperlink, hyperlink_url) triples.
RECURSIVE reader_yield_runs(_)
reader_yield_runs(container) ==
  IF container = <<>> THEN <<>>
  ELSE LET child == Head(container)
           url == IF child.attr # "" THEN hyperlink_rels(child.attr) ELSE ""
           here ==
             CASE child.tag = "r" ->
                    <<[run |-> child, hyp |-> FALSE, url |-> ""]>>
               [] child.tag = "hyperlink" ->
                    [i \in 1..Len(findall_r(child)) |->
                       [run |-> findall_r(child)[i], hyp |-> TRUE, url |-> url]]
               [] child.tag = "ins" -> reader_yield_runs(child.kids)
               [] OTHER -> <<>>
       IN  here \o reader_yield_runs(Tail(container))

iter_all_runs(para) == reader_yield_runs(para.kids)

RECURSIVE reader_row_paragraphs(_, _, _, _)
reader_row_paragraphs(tbl, row_idx, col_idx, seen_tc) ==
  LET row == tbl.rows[row_idx + 1]
  IN  IF col_idx >= Len(row) THEN <<>>
      ELSE LET cell == tbl.kids[row[col_idx + 1]]
               tc_id == cell.id
               paras == cell_paragraphs(cell)
           IN  IF tc_id \in seen_tc
               THEN reader_row_paragraphs(tbl, row_idx, col_idx + 1, seen_tc)
               ELSE [i \in 1..Len(paras) |->
                       [para |-> paras[i],
                        tinfo |-> <<row_idx, col_idx, Len(tbl.rows),
                                    Len(tbl.rows[1])>>]]
                    \o reader_row_paragraphs(tbl, row_idx, col_idx + 1,
                                             seen_tc \cup {tc_id})

reader_table_paragraphs(tbl) ==
  Flatten([r \in 1..Len(tbl.rows) |-> reader_row_paragraphs(tbl, r - 1, 0, {})])

\* _is_toc_sdt
is_toc_sdt(sdt_element) == sdt_element.attr = "toc"

\* _iter_sdt_content: the p and tbl children of an sdtContent.
iter_sdt_content(sdt_content) ==
  Flatten([i \in 1..Len(sdt_content) |->
    CASE sdt_content[i].tag = "p" ->
           <<[para |-> sdt_content[i], tinfo |-> NoTable]>>
      [] sdt_content[i].tag = "tbl" -> reader_table_paragraphs(sdt_content[i])
      [] OTHER -> <<>>])

\* _iter_document_paragraphs of read_document_runs.py: as the commenter's,
\* and it descends into every sdt that is not a table of contents.
reader_iter_document_paragraphs(body) ==
  Flatten([i \in 1..Len(body) |->
    CASE body[i].tag = "p" -> <<[para |-> body[i], tinfo |-> NoTable]>>
      [] body[i].tag = "tbl" -> reader_table_paragraphs(body[i])
      [] body[i].tag = "sdt" ->
           IF is_toc_sdt(body[i]) THEN <<>> ELSE iter_sdt_content(body[i].kids)
      [] OTHER -> <<>>])

\* The run loop of read_document_runs without its numbering: one run_info per
\* yielded run (elem is the identity of the element the entry describes).
reader_run_infos(body) ==
  LET paras == reader_iter_document_paragraphs(body)
  IN  Flatten([i \in 1..Len(paras) |->
        LET rs == iter_all_runs(paras[i].para)
        IN  [j \in 1..Len(rs) |->
               [para_idx |-> i - 1, elem |-> rs[j].run.id,
                text |-> rs[j].run.text, bold |-> rs[j].run.attr = "b",
                is_hyperlink |-> rs[j].hyp, hyperlink_url |-> rs[j].url,
                table_info |-> paras[i].tinfo]]])

\* read_document_runs: run_counter numbers the run_infos from 0.
read_document_runs(body) ==
  LET infos == reader_run_infos(body)
  IN  [done |-> TRUE,
       runs |-> [k \in 1..Len(infos) |->
                   [global_run_id |-> k - 1, info |-> infos[k]]],
       total_runs |-> Len(infos)]

NoListing == [done |-> FALSE, runs |-> <<>>, total_runs |-> 0]

\* ------------------------------------------------------ commenter: the split

\* list(parent_element).index(run_element)
list_index(children, elem) ==
  (CHOOSE i \in 1..Len(children) : children[i].id = elem.id) - 1

\* parent_element.insert(index, elem)
list_insert(children, index, elem) ==
  LET i == Min(index, Len(children))
  IN  SubSeq(children, 1, i) \o <<elem>> \o SubSeq(children, i + 1, Len(children))

\* split_children that leaves out a new run without text.
split_children_elides_empty(children, run_element, before_text, target_run_elem, after_run_elem) ==
  LET run_position == list_index(children, run_element)
      cut == [children EXCEPT ![run_position + 1].text = before_text]
      with_target == list_insert(cut, run_position + 1, target_run_elem)
  IN  IF after_run_elem.text = <<>> THEN with_target
      ELSE list_insert(with_target, run_position + 2, after_run_elem)

\* Lines 149-156 of split_run_at_text on the child list of the parent: the
\* original run keeps its place and identity with its text cut to before_text,
\* and the two new runs go in right after it.
split_children(children, run_element, before_text, target_run_elem, after_run_elem) ==
  LET run_position == list_index(children, run_element)
      cut == [children EXCEPT ![run_position + 1].text = before_text]
  IN  list_insert(list_insert(cut, run_position + 1, target_run_elem),
                  run_position + 2, after_run_elem)

\* run_element.getparent() and the mutation of its child list, on a tree:
\* the one child list that holds run_element is replaced, all else is kept.
RECURSIVE mutate_parent(_, _, _, _, _)
mutate_parent(nodes, run_element, before_text, target_run_elem, after_run_elem) ==
  IF \E i \in 1..Len(nodes) : nodes[i].id = run_element.id
  THEN split_children(nodes, run_element, before_text, target_run_elem,
                      after_run_elem)
  ELSE [i \in 1..Len(nodes) |->
          [nodes[i] EXCEPT !.kids =
             mutate_parent(@, run_element, before_text, target_run_elem,
                           after_run_elem)]]

\* split_run_at_text with the new runs inserted before the index is tested:
\* a sub-string that is not found leaves two empty siblings behind.
split_run_at_text_orphans(body, run_element, subset_text, fresh) ==
  LET text == run_element.text
      start_idx == str_find(lower(text), lower(subset_text))
      end_idx == start_idx + Len(subset_text)
      target_run_elem ==
        R(fresh, IF start_idx = -1 THEN <<>> ELSE Slice(text, start_idx, end_idx),
          run_element.attr)
      after_run_elem ==
        R(fresh + 1, IF start_idx = -1 THEN <<>> ELSE Slice(text, end_idx, Len(text)),
          run_element.attr)
      mutated ==
        mutate_parent(body, run_element,
                      IF start_idx = -1 THEN text ELSE Slice(text, 0, start_idx),
                      target_run_elem, after_run_elem)
  IN  IF start_idx = -1
      THEN [ok |-> FALSE, body |-> mutated, target |-> NoNode]
      ELSE [ok |-> TRUE, body |-> mutated, target |-> target_run_elem]

\* split_run_at_text on the tree; fresh and fresh + 1 are the identities of
\* the two elements OxmlElement('w:r') creates.  ok = FALSE is the return of
\* None; target is the returned element.
split_run_at_text(body, run_element, subset_text, fresh) ==
  LET text == run_element.text
      start_idx == str_find(lower(text), lower(subset_text))
      end_idx == start_idx + Len(subset_text)
      before_text == Slice(text, 0, start_idx)
      target_text == Slice(text, start_idx, end_idx)
      after_text == Slice(text, end_idx, Len(text))
      target_run_elem == R(fresh, target_text, run_element.attr)
      after_run_elem == R(fresh + 1, after_text, run_element.attr)
  IN  IF start_idx = -1
      THEN [ok |-> FALSE, body |-> body, target |-> NoNode]
      ELSE [ok |-> TRUE,
            body |-> mutate_parent(body, run_element, before_text,
                                   target_run_elem, after_run_elem),
            target |-> target_run_elem]

\* ------------------------------------------------- commenter: add_comment

\* A request c of a batch: c["run_ids"] (an int k is the list <<k>>),
\* c["text"], c.get("subset_text") (<<>> is None or '': both are falsy).
Request(run_ids, subset_text, text) ==
  [run_ids |-> run_ids, subset_text |-> subset_text, text |-> text]

\* _has_text without strip(): a whitespace-only run counts as text.
has_text_unstripped(run_elem) == run_elem.text # <<>>

\* add_comment._has_text
has_text(run_elem) == strip(run_elem.text) # <<>>

\* The loop "for run_id in run_ids" of add_comment from position i on.
\* ok = FALSE is an early "return False"; body is the tree as the calls made
\* so far left it (the tree is mutated in place); runs is target_run_objs;
\* splits lists the runs that were split, in order.
RECURSIVE resolve_runs(_, _, _, _, _, _, _)
resolve_runs(body, run_ids, i, subset_text, fresh, runs, splits) ==
  IF i > Len(run_ids)
  THEN [ok |-> TRUE, body |-> body, runs |-> runs, splits |-> splits,
        fresh |-> fresh]
  ELSE LET f == find_run_by_global_id(body, run_ids[i])
           s == split_run_at_text(body, f.run, subset_text, fresh)
           failed(b) == [ok |-> FALSE, body |-> b, runs |-> runs,
                         splits |-> splits, fresh |-> fresh]
       IN  IF ~f.found THEN failed(body)
           ELSE IF subset_text # <<>>
           THEN IF ~s.ok THEN failed(s.body)
                ELSE resolve_runs(s.body, run_ids, i + 1, subset_text, fresh + 2,
                       Append(runs, s.target),
                       Append(splits, [gid |-> run_ids[i], run |-> f.run,
                                       target |-> s.target.id]))
           ELSE resolve_runs(body, run_ids, i + 1, subset_text, fresh,
                             Append(runs, f.run), splits)

\* What an add_comment call gives: ok is the returned bool; body the tree it
\* leaves; invoked tells whether doc.add_comment was called; comment is what
\* was attached (runs = <<>> when nothing was); splits the runs it split.
Outcome(ok, body, invoked, comment_runs, c, splits, fresh) ==
  [ok |-> ok, body |-> body, invoked |-> invoked,
   comment |-> [runs |-> comment_runs, text |-> c.text],
   splits |-> splits, fresh |-> fresh, raised |-> FALSE]

\* attach_comment whose except clause reports success.
attach_comment_except_true(r, non_empty_runs, c, attach_ok) ==
  IF ~r.ok \/ non_empty_runs = <<>>
  THEN Outcome(FALSE, r.body, FALSE, <<>>, c, r.splits, r.fresh)
  ELSE [Outcome(TRUE, r.body, TRUE,
                IF attach_ok
                THEN [k \in 1..Len(non_empty_runs) |-> non_empty_runs[k].id]
                ELSE <<>>,
                c, r.splits, r.fresh)
          EXCEPT !.raised = ~attach_ok]

\* add_comment after its loop (r is what the loop left): the filter on empty
\* runs and the call of doc.add_comment, which returns (attach_ok) or raises.
\* doc.add_comment is the comment storage of the container format, not code
\* of these scripts: the comment is recorded with the runs it spans, and the
\* runs of the tree stay as they are.  When it raises, the except clause
\* returns False (raised tells that the clause ran).
attach_comment(r, non_empty_runs, c, attach_ok) ==
  IF ~r.ok \/ non_empty_runs = <<>>
  THEN Outcome(FALSE, r.body, FALSE, <<>>, c, r.splits, r.fresh)
  ELSE IF attach_ok
  THEN Outcome(TRUE, r.body, TRUE,
               [k \in 1..Len(non_empty_runs) |-> non_empty_runs[k].id],
               c, r.splits, r.fresh)
  ELSE [Outcome(FALSE, r.body, TRUE, <<>>, c, r.splits, r.fresh)
          EXCEPT !.raised = TRUE]

filter_empty_runs(r, c, attach_ok) ==
  attach_comment(r, SelectSeq(r.runs, has_text), c, attach_ok)

\* add_comment without the test on a sub-string given with several IDs.
add_comment_any_shape(body, c, fresh, attach_ok) ==
  IF c.run_ids = <<>>
  THEN Outcome(FALSE, body, FALSE, <<>>, c, <<>>, fresh)
  ELSE filter_empty_runs(
         resolve_runs(body, c.run_ids, 1, c.subset_text, fresh, <<>>, <<>>),
         c, attach_ok)

\* add_comment(doc, run_ids, text, subset_text).  attach_ok tells whether
\* doc.add_comment returns (TRUE) or raises (FALSE) should it be called.
add_comment(body, c, fresh, attach_ok) ==
  IF c.run_ids = <<>> \/ (c.subset_text # <<>> /\ Len(c.run_ids) > 1)
  THEN Outcome(FALSE, body, FALSE, <<>>, c, <<>>, fresh)
  ELSE filter_empty_runs(
         resolve_runs(body, c.run_ids, 1, c.subset_text, fresh, <<>>, <<>>),
         c, attach_ok)

\* -------------------------------------------- commenter: add_comments_batch

RECURSIVE max_of(_)
max_of(ids) ==
  IF Len(ids) = 1 THEN ids[1]
  ELSE LET m == max_of(Tail(ids)) IN IF ids[1] > m THEN ids[1] ELSE m

\* sort_key with has_subset not negated: on equal IDs the request without a
\* sub-string sorts first.
sort_key_flag_ascending(c) ==
  LET max_id == max_of(c.run_ids)
      has_subset == IF c.subset_text # <<>> THEN 1 ELSE 0
  IN  <<-max_id, has_subset>>

\* add_comments_batch.sort_key: (-max_id, -has_subset).  max() of an empty
\* list raises ValueError: see sort_raises.
sort_key(c) ==
  LET max_id == max_of(c.run_ids)
      has_subset == IF c.subset_text # <<>> THEN 1 ELSE 0
  IN  <<-max_id, -has_subset>>

\* sort_key raises on some comment of the batch (max([]) is a ValueError).
sort_raises(cs) == \E i \in 1..Len(cs) : cs[i].run_ids = <<>>

\* Python's comparison of two 2-tuples.
tuple_lt(k1, k2) == k1[1] < k2[1] \/ (k1[1] = k2[1] /\ k1[2] < k2[2])

\* x goes after every element whose key is not greater (sorted is stable).
RECURSIVE insert_sorted(_, _)
insert_sorted(done, x) ==
  IF done = <<>> THEN <<x>>
  ELSE IF tuple_lt(sort_key(x), sort_key(Head(done)))
  THEN <<x>> \o done
  ELSE <<Head(done)>> \o insert_sorted(Tail(done), x)

RECURSIVE sorted_from(_, _, _)
sorted_from(cs, i, done) ==
  IF i > Len(cs) THEN done
  ELSE sorted_from(cs, i + 1, insert_sorted(done, cs[i]))

\* sorted(comments, key=sort_key)
sorted_comments(cs) == sorted_from(cs, 1, <<>>)

\* ------------------------------------------------------------ the documents

\* Two paragraphs of plain runs: "a b" (bold), " ", and "AB".
DocPlain ==
  <<P(1, <<R(2, <<"a", " ", "b">>, "b"), R(3, <<" ">>, "")>>),
    P(4, <<R(5, <<"A", "B">>, "")>>)>>

\* One paragraph: a deleted run, a hyperlink holding a run (text U+0130 "ab")
\* and an insertion, an insertion holding a run and a nested insertion with a
\* hyperlink.
DocInline ==
  <<P(1, <<Del(2, <<R(3, <<"a">>, "")>>),
           Hyperlink(4, "rId1",
             <<R(5, <<"Idot", "a", "b">>, ""), Ins(6, <<R(7, <<"b">>, "")>>)>>),
           Ins(8, <<R(9, <<"a", " ", "b">>, "b"),
                    Ins(10, <<Hyperlink(11, "", <<R(12, <<"b">>, "")>>)>>)>>)>>)>>

\* A 2 x 2 table whose first row is one horizontally merged cell, then a
\* paragraph with an empty run.
DocHMerge ==
  <<Tbl(1, <<<<1, 1>>, <<2, 3>>>>,
        <<Tc(2, <<P(3, <<R(4, <<"a", "b">>, "")>>)>>),
          Tc(5, <<P(6, <<R(7, <<"a", " ", "b">>, "")>>)>>),
          Tc(8, <<P(9, <<>>)>>)>>),
    P(10, <<R(11, <<>>, "")>>)>>

\* A 2 x 2 table whose first column is one vertically merged cell: row.cells
\* reports that cell in both rows.
DocVMerge ==
  <<Tbl(1, <<<<1, 2>>, <<1, 3>>>>,
        <<Tc(2, <<P(3, <<R(4, <<"a", " ", "b">>, "")>>)>>),
          Tc(5, <<P(6, <<R(7, <<"b">>, "")>>)>>),
          Tc(8, <<P(9, <<>>)>>)>>)>>

\* A table-of-contents sdt, a structured-content block with a paragraph, and
\* a body paragraph.
DocSdt ==
  <<Sdt(1, "toc", <<P(2, <<R(3, <<"a">>, "")>>)>>),
    Sdt(4, "", <<P(5, <<R(6, <<"a", "b">>, "")>>)>>),
    P(7, <<R(8, <<"a", " ", "b">>, "")>>)>>

\* One paragraph: a run, a deleted run, a run, and a hyperlink holding a
\* deleted run and a run.
DocDeleted ==
  <<P(1, <<R(2, <<"a", " ", "b">>, ""),
           Del(3, <<R(4, <<"a">>, "")>>),
           R(5, <<"b">>, ""),
           Hyperlink(6, "rId1",
             <<Del(7, <<R(8, <<"a">>, "")>>), R(9, <<"a", "b">>, "")>>)>>)>>

Docs == {DocPlain, DocInline, DocHMerge, DocVMerge, DocSdt, DocDeleted}

\* The sub-strings a request may ask to isolate.
Subsets == {<<"a">>, <<"b">>, <<" ">>}

\* The number of runs the commenter's traversal finds.
TotalRuns(body) == Len(helper_all_runs(body))

\* The contiguous ascending ID lists of n IDs that start in the document.
Ranges(body, n) ==
  {[i \in 1..n |-> k + i - 1] : k \in 0..(TotalRuns(body) - 1)}

\* The shapes of the requests a caller may submit for a document: one ID
\* (in range, negative or too large) with or without a sub-string, a range
\* of IDs, a range with a sub-string, a list with a gap, the empty list.
Shapes(body) ==
  LET N == TotalRuns(body)
      one == {<<k>> : k \in 0..(N - 1)}
      many == UNION {Ranges(body, n) : n \in 2..MaxRange}
  IN  {[run_ids |-> ids, subset_text |-> st] :
         ids \in one, st \in Subsets \cup {<<>>}}
      \cup {[run_ids |-> ids, subset_text |-> <<>>] :
              ids \in many \cup {<<-1>>, <<N>>, <<0, 2>>, <<>>}}
      \cup {[run_ids |-> <<0, 1>>, subset_text |-> <<"b">>]}

\* The batches of at most MaxBatch requests; the comment text of a request
\* names its position in the submitted batch.
Batches(body) ==
  UNION {[1..n -> Shapes(body)] : n \in 0..MaxBatch}

WithTexts(shapes) ==
  [i \in 1..Len(shapes) |->
     Request(shapes[i].run_ids, shapes[i].subset_text, i)]

\* ------------------------------------------------------------------ state

\* doc        the body of the loaded document
\* pc         "loaded", "batch" (inside the loop of add_comments_batch),
\*            "done" (add_comments_batch returned), "raised" (it raised),
\*            "single" (one add_comment call returned)
\* listing    the result of read_document_runs on this load
\* found      the last find_run_by_global_id call on this load
\* batch      the comments given to add_comments_batch
\* queue      the rest of sorted_comments
\* orig       the run element (identity and text) each ID denoted when the
\*            batch started
\* applied    the requests add_comment was called with, in order
\* last       the last add_comment call (raises counts the calls so far in
\*            which doc.add_comment raised)
\* comments   the comments attached by doc.add_comment
\* result     the returned (successes, failures)
\* nextId     the identity of the next created element

NoLookup == [called |-> FALSE, gid |-> 0, res |-> NotFound]

NoCall ==
  [n |-> 0, c |-> Request(<<>>, <<>>, 0), ok |-> FALSE, invoked |-> FALSE,
   splits |-> <<>>, raised |-> FALSE, raises |-> 0]

Init ==
  /\ doc \in Docs
  /\ pc = "loaded"
  /\ listing = NoListing
  /\ found = NoLookup
  /\ batch = <<>>
  /\ queue = <<>>
  /\ orig = <<>>
  /\ applied = <<>>
  /\ last = NoCall
  /\ comments = <<>>
  /\ successes = 0
  /\ failures = 0
  /\ result = <<>>
  /\ nextId = 100

\* A load is used by one invocation: the reader and the lookups, or the
\* commenter.
Fresh == listing = NoListing /\ found = NoLookup

\* read_document_runs(docx_path)
Read ==
  /\ pc = "loaded"
  /\ ~listing.done
  /\ listing' = read_document_runs(doc)
  /\ UNCHANGED <<doc, pc, found, batch, queue, orig, applied, last, comments,
                 successes, failures, result, nextId>>

\* find_run_by_global_id(doc, i)
Locate(i) ==
  /\ pc = "loaded"
  /\ found' = [called |-> TRUE, gid |-> i, res |-> find_run_by_global_id(doc, i)]
  /\ UNCHANGED <<doc, pc, listing, batch, queue, orig, applied, last, comments,
                 successes, failures, result, nextId>>

\* The effect of one add_comment call that gave r on the state.
Record(r, c) ==
  /\ doc' = r.body
  /\ nextId' = r.fresh
  /\ comments' = IF r.ok THEN Append(comments, r.comment) ELSE comments
  /\ applied' = Append(applied, c)
  /\ last' = [n |-> last.n + 1, c |-> c, ok |-> r.ok,
              invoked |-> r.invoked, splits |-> r.splits,
              raised |-> r.raised,
              raises |-> IF r.raised THEN last.raises + 1 ELSE last.raises]
  /\ successes' = IF r.ok THEN successes + 1 ELSE successes
  /\ failures' = IF r.ok THEN failures ELSE failures + 1

Call(c, attach_ok) == Record(add_comment(doc, c, nextId, attach_ok), c)

\* One add_comment(doc, run_ids, text, subset_text) call on a fresh load.
AddComment(shape, attach_ok) ==
  /\ pc = "loaded"
  /\ Fresh
  /\ Call(Request(shape.run_ids, shape.subset_text, 1), attach_ok)
  /\ pc' = "single"
  /\ UNCHANGED <<listing, found, batch, queue, orig, result>>

\* add_comments_batch(doc, comments) up to its loop: the empty batch returns
\* (0, 0); sorted() raises when sort_key does; else the loop starts.
StartBatch(cs) ==
  /\ pc = "loaded"
  /\ Fresh
  /\ batch' = cs
  /\ IF cs = <<>>
     THEN pc' = "done" /\ result' = <<0, 0>> /\ UNCHANGED <<queue, orig>>
     ELSE IF sort_raises(cs)
     THEN pc' = "raised" /\ UNCHANGED <<queue, orig, result>>
     ELSE /\ pc' = "batch"
          /\ queue' = sorted_comments(cs)
          /\ orig' = [k \in 1..TotalRuns(doc) |->
                        [id |-> helper_all_runs(doc)[k].run.id,
                         text |-> helper_all_runs(doc)[k].run.text]]
          /\ UNCHANGED result
  /\ UNCHANGED <<doc, listing, found, applied, last, comments, successes,
                 failures, nextId>>

\* One iteration of "for c in sorted_comments".
Apply(attach_ok) ==
  /\ pc = "batch"
  /\ queue # <<>>
  /\ Call(Head(queue), attach_ok)
  /\ queue' = Tail(queue)
  /\ UNCHANGED <<pc, listing, found, batch, orig, result>>

\* return (successes, failures)
Return ==
  /\ pc = "batch"
  /\ queue = <<>>
  /\ pc' = "done"
  /\ result' = <<successes, failures>>
  /\ UNCHANGED <<doc, listing, found, batch, queue, orig, applied, last,
                 comments, successes, failures, nextId>>

Next ==
  \/ Read
  \/ /\ pc = "loaded"
     /\ \E i \in -1..(Len(reader_run_infos(doc)) + 1) : Locate(i)
  \/ /\ pc = "loaded" /\ Fresh
     /\ \E shape \in Shapes(doc), attach_ok \in BOOLEAN :
          AddComment(shape, attach_ok)
  \/ /\ pc = "loaded" /\ Fresh
     /\ \E shapes \in Batches(doc) : StartBatch(WithTexts(shapes))
  \/ /\ pc = "batch" /\ queue # <<>>
     /\ \E attach_ok \in BOOLEAN : Apply(attach_ok)
  \/ Return

Spec == Init /\ [][Next]_vars

\* ------------------------------------------------------------------ claims

\* The step is an add_comment call (alone or as one iteration of the batch).
CallStep == last'.n = last.n + 1

\* The runs of the tree as the commenter numbers them: identity and text.
RunTexts(body) ==
  [k \in 1..TotalRuns(body) |->
     <<helper_all_runs(body)[k].run.id, helper_all_runs(body)[k].run.text>>]

\* The element ID i resolves to (-1 when it resolves to none).
Resolved(body, i) == find_run_by_global_id(body, i).run.id

\* needle occurs in hay.
Contains(hay, needle) ==
  \E i \in 0..(Len(hay) - Len(needle)) :
    SubSeq(hay, i + 1, i + Len(needle)) = needle

\* The child list that holds the element with identity id.
RECURSIVE parent_children(_, _)
parent_children(nodes, id) ==
  IF \E i \in 1..Len(nodes) : nodes[i].id = id THEN nodes
  ELSE Flatten([i \in 1..Len(nodes) |-> parent_children(nodes[i].kids, id)])

\* The largest ID a request names.
MaxIdOf(c) ==
  CHOOSE m \in {c.run_ids[j] : j \in 1..Len(c.run_ids)} :
    \A j \in 1..Len(c.run_ids) : c.run_ids[j] <= m

\* i is negative or not below the number of runs.
BadId(body, i) == i < 0 \/ i >= TotalRuns(body)

\* C1: on an unmodified load, find_run_by_global_id(doc, i) gives the run
\* read_document_runs numbered i for every i below total_runs, and not-found
\* for every other i.
C1_ReaderLocatorAgree ==
  (listing.done /\ found.called) =>
    IF found.gid \in 0..(listing.total_runs - 1)
    THEN /\ found.res.found
         /\ found.res.run.id = listing.runs[found.gid + 1].info.elem
    ELSE ~found.res.found

\* C2: inside add_comments_batch, every run ID of every request not yet
\* applied resolves on the current tree to the element it denoted when the
\* batch started.
C2_PendingIdsStable ==
  pc = "batch" =>
    \A k \in 1..Len(queue) : \A j \in 1..Len(queue[k].run_ids) :
      LET id == queue[k].run_ids[j]
      IN  Resolved(doc, id) = IF id \in 0..(Len(orig) - 1) THEN orig[id + 1].id ELSE -1

\* C3: requests are applied by descending maximum run ID, whatever their
\* split flags, and among equal maximum IDs no request without a sub-string
\* is applied before one with a sub-string.
C3_AppliedOrder ==
  \A i \in 1..Len(applied) : \A j \in 1..Len(applied) :
    i < j =>
      /\ MaxIdOf(applied[i]) >= MaxIdOf(applied[j])
      /\ MaxIdOf(applied[i]) = MaxIdOf(applied[j]) =>
           ~(applied[i].subset_text = <<>> /\ applied[j].subset_text # <<>>)

\* C3 witness: a batch submitted as (no sub-string, sub-string) on one ID was
\* applied in the opposite order.
C3_Witness ==
  /\ pc = "done"
  /\ Len(batch) = 2
  /\ batch[1].subset_text = <<>> /\ batch[2].subset_text # <<>>
  /\ batch[1].run_ids = batch[2].run_ids
  /\ applied = <<batch[2], batch[1]>>

\* C4: a split of run K changes the element of no ID below K, and K still
\* resolves to the original element.
C4_SplitKeepsLowerIds ==
  [][(CallStep /\ last'.splits # <<>>) =>
       /\ \A j \in 0..(last'.splits[1].gid - 1) : Resolved(doc', j) = Resolved(doc, j)
       /\ Resolved(doc', last'.splits[1].gid) = last'.splits[1].run.id]_vars

\* C5: add_comments_batch ends by returning (successes, failures); every
\* request of the batch was attempted exactly once, successes + failures is
\* the size of the batch and successes is the number of comments attached.
C5_BatchCountsEveryRequest ==
  pc \in {"done", "raised"} =>
    /\ pc = "done"
    /\ result = <<successes, failures>>
    /\ successes + failures = Len(batch)
    /\ Len(applied) = Len(batch)
    /\ {applied[i].text : i \in 1..Len(applied)} = 1..Len(batch)
    /\ successes = Len(comments)

\* C6: an add_comment call that returns False leaves the runs of the tree
\* and their texts as they were.
C6_FailureLeavesTree ==
  [][(CallStep /\ ~last'.ok) => RunTexts(doc') = RunTexts(doc)]_vars

\* After a split of the run sp.run (its state before the split) the parent
\* holds original, target and after in a row, their texts concatenate to the
\* original text and the target is the sub-string up to case.
SplitIsPartition(children, sp, subset_text) ==
  \E i \in 1..(Len(children) - 2) :
    /\ children[i].id = sp.run.id
    /\ children[i + 1].id = sp.target
    /\ children[i].tag = "r" /\ children[i + 1].tag = "r" /\ children[i + 2].tag = "r"
    /\ children[i].text \o children[i + 1].text \o children[i + 2].text = sp.run.text
    /\ lower(children[i + 1].text) = lower(subset_text)

\* C7: a split of a run at a sub-string its text contains (up to case)
\* leaves three consecutive sibling runs whose texts concatenate to the
\* original text, the target being the sub-string up to case.
C7_SplitPartitionsText ==
  last.splits # <<>> =>
    SplitIsPartition(parent_children(doc, last.splits[1].run.id),
                     last.splits[1], last.c.subset_text)

\* The request names one run that exists and asks for a sub-string that does
\* not occur in its text up to case.
AbsentSubset(body, c) ==
  /\ Len(c.run_ids) = 1
  /\ c.subset_text # <<>>
  /\ find_run_by_global_id(body, c.run_ids[1]).found
  /\ ~Contains(lower(find_run_by_global_id(body, c.run_ids[1]).run.text),
               lower(c.subset_text))

\* C8: when the sub-string does not occur in the run's text (up to case),
\* split_run_at_text returns not-found and changes nothing, and add_comment
\* returns False without attaching a comment; the tree is unchanged.
C8_FailedSplitInsertsNothing ==
  [][(CallStep /\ AbsentSubset(doc, last'.c)) =>
       /\ ~split_run_at_text(doc, find_run_by_global_id(doc, last'.c.run_ids[1]).run,
                             last'.c.subset_text, nextId).ok
       /\ doc' = doc
       /\ ~last'.ok /\ ~last'.invoked
       /\ comments' = comments]_vars

\* C8 witness: the last call asked for a sub-string absent from its run.
C8_Witness ==
  /\ last.n > 0
  /\ AbsentSubset(doc, last.c)
  /\ ~last.ok

\* C9: find_run_by_global_id gives (None, None, None) for every ID that is
\* negative or not below the number of runs, and an add_comment call whose
\* request names such an ID returns False, splits nothing and attaches nothing.
C9_BadIdNotFound ==
  [][/\ (found'.called /\ BadId(doc', found'.gid)) => found'.res = NotFound
     /\ (CallStep /\ \E j \in 1..Len(last'.c.run_ids) : BadId(doc, last'.c.run_ids[j])) =>
          /\ ~last'.ok /\ ~last'.invoked
          /\ last'.splits = <<>>
          /\ doc' = doc
          /\ comments' = comments]_vars

\* C9 witness: the last call named a run that exists and then an ID that is
\* too large.
C9_Witness ==
  /\ last.n > 0
  /\ Len(last.c.run_ids) = 2
  /\ ~BadId(doc, last.c.run_ids[1])
  /\ BadId(doc, last.c.run_ids[2])
  /\ ~last.ok

\* Every ID of the request resolves, and to a run without text.
AllBlank(body, c) ==
  \A j \in 1..Len(c.run_ids) :
    /\ find_run_by_global_id(body, c.run_ids[j]).found
    /\ strip(find_run_by_global_id(body, c.run_ids[j]).run.text) = <<>>

\* C10: a request all of whose runs have blank or whitespace-only text makes
\* add_comment return False without calling doc.add_comment, and counts as a
\* failure, not as a success.
C10_EmptyTargetFails ==
  [][(CallStep /\ AllBlank(doc, last'.c)) =>
       /\ ~last'.ok /\ ~last'.invoked
       /\ comments' = comments
       /\ successes' = successes
       /\ failures' = failures + 1]_vars

\* C10 witness: inside a batch the last call was for a whitespace-only run.
C10_Witness ==
  /\ pc = "batch"
  /\ last.n > 0
  /\ last.c.run_ids # <<>>
  /\ last.splits = <<>>
  /\ AllBlank(doc, last.c)
  /\ find_run_by_global_id(doc, last.c.run_ids[1]).run.text # <<>>
  /\ failures > 0

\* C11: an add_comment call with a non-empty sub-string and more than one run
\* ID returns False before any run is located: nothing is split, nothing is
\* attached, the tree and the comments stay as they were.
C11_SubsetNeedsSingleRun ==
  [][(CallStep /\ last'.c.subset_text # <<>> /\ Len(last'.c.run_ids) > 1) =>
       /\ ~last'.ok /\ ~last'.invoked
       /\ last'.splits = <<>>
       /\ doc' = doc
       /\ nextId' = nextId
       /\ comments' = comments]_vars

\* C11 witness: the last call gave a sub-string and two IDs of runs that
\* exist, the first of which holds the sub-string, and returned False.
C11_Witness ==
  /\ last.n > 0
  /\ last.c.subset_text # <<>>
  /\ Len(last.c.run_ids) = 2
  /\ ~BadId(doc, last.c.run_ids[1]) /\ ~BadId(doc, last.c.run_ids[2])
  /\ Contains(lower(find_run_by_global_id(doc, last.c.run_ids[1]).run.text),
              lower(last.c.subset_text))
  /\ ~last.ok

\* C12: when doc.add_comment raises, add_comment catches the exception and
\* returns False: the call counts as a failure, attaches nothing, and the
\* batch goes on with the rest of its queue; a batch in which the attach
\* raised still applies every request and returns the counts.
C12_AttachFailureContained ==
  [][/\ (CallStep /\ last'.raised) =>
          /\ ~last'.ok
          /\ comments' = comments
          /\ successes' = successes
          /\ failures' = failures + 1
          /\ pc = "batch" => (pc' = "batch" /\ queue' = Tail(queue))
     /\ (pc = "batch" /\ pc' = "done" /\ last.raises > 0) =>
          /\ Len(applied) = Len(batch)
          /\ {applied[i].text : i \in 1..Len(applied)} = 1..Len(batch)
          /\ failures >= last.raises
          /\ result' = <<successes, failures>>]_vars

\* C12 witness: a batch of two equal requests without sub-string on one run
\* returned; the attach raised for the first applied and the second was
\* attached.
C12_Witness ==
  /\ pc = "done"
  /\ Len(batch) = 2
  /\ batch[1].run_ids = batch[2].run_ids
  /\ batch[1].subset_text = <<>> /\ batch[2].subset_text = <<>>
  /\ last.raises = 1 /\ ~last.raised
  /\ result = <<1, 1>>
  /\ Len(comments) = 1 /\ comments[1].text = applied[2].text

\* Every element below nodes, in storage order (an element before its
\* children), with the tags of its ancestors from nodes down.
RECURSIVE Descendants(_, _)
Descendants(nodes, path) ==
  Flatten([i \in 1..Len(nodes) |->
             <<[node |-> nodes[i], path |-> path]>>
               \o Descendants(nodes[i].kids, Append(path, nodes[i].tag))])

\* A run a paragraph's enumeration keeps: it sits under insertions only, or
\* is the direct child of a hyperlink that sits under insertions only.
KeptRun(d) ==
  /\ d.node.tag = "r"
  /\ \A j \in 1..(Len(d.path) - 1) : d.path[j] = "ins"
  /\ d.path # <<>> => d.path[Len(d.path)] \in {"ins", "hyperlink"}

InHyperlink(d) == d.path # <<>> /\ d.path[Len(d.path)] = "hyperlink"

\* The runs of a paragraph an enumerator has to yield, with the hyperlink flag.
Flagged(kept) ==
  [k \in 1..Len(kept) |-> [run |-> kept[k].node, hyp |-> InHyperlink(kept[k])]]

KeptRuns(para) == Flagged(SelectSeq(Descendants(para.kids, <<>>), KeptRun))

\* The paragraphs of the tree, wherever they are.
ParagraphsAmong(ds) ==
  {ds[k].node : k \in {j \in 1..Len(ds) : ds[j].node.tag = "p"}}

Paragraphs(body) == ParagraphsAmong(Descendants(body, <<>>))

\* What an enumeration yielded, without the URL.
RunAndFlag(yielded) ==
  [k \in 1..Len(yielded) |-> [run |-> yielded[k].run, hyp |-> yielded[k].hyp]]

\* C13: within a paragraph the reader's and the commenter's enumerators yield,
\* in storage order, exactly the plain run children, the direct run children
\* of hyperlinks (flagged) and the same under insertions; no run under a
\* deletion is yielded, and the IDs of the listing count the kept runs with no
\* gap.
C13_EnumeratorsKeepOrder ==
  /\ \A para \in Paragraphs(doc) :
       /\ helper_iter_all_runs(para) = KeptRuns(para)
       /\ RunAndFlag(iter_all_runs(para)) = KeptRuns(para)
  /\ listing.done =>
       /\ listing.total_runs = Len(listing.runs)
       /\ \A k \in 1..Len(listing.runs) : listing.runs[k].global_run_id = k - 1

\* C13 witness: the listing was made of a paragraph holding a run, a deletion
\* with a run in it and a run; the two kept runs have consecutive IDs in the
\* listing and for the commenter.
C13_Witness ==
  /\ listing.done
  /\ \E i \in 1..Len(doc) :
       /\ doc[i].tag = "p"
       /\ \E j \in 1..(Len(doc[i].kids) - 2) :
            /\ doc[i].kids[j].tag = "r"
            /\ doc[i].kids[j + 1].tag = "del"
            /\ findall_r(doc[i].kids[j + 1]) # <<>>
            /\ doc[i].kids[j + 2].tag = "r"
            /\ \E k \in 1..(Len(listing.runs) - 1) :
                 /\ listing.runs[k].info.elem = doc[i].kids[j].id
                 /\ listing.runs[k + 1].info.elem = doc[i].kids[j + 2].id
                 /\ Resolved(doc, k - 1) = doc[i].kids[j].id
                 /\ Resolved(doc, k) = doc[i].kids[j + 2].id

\* The grid positions (row, column, from 0) at which a table reports the cell
\* stored at index ci.
PositionsOf(tbl, ci) ==
  {pos \in (0..(Len(tbl.rows) - 1)) \X (0..(Len(tbl.rows[1]) - 1)) :
     tbl.rows[pos[1] + 1][pos[2] + 1] = ci}

\* pos is the first of the positions in row-major order.
FirstOf(positions, pos) ==
  /\ pos \in positions
  /\ \A q \in positions : pos[1] < q[1] \/ (pos[1] = q[1] /\ pos[2] <= q[2])

\* yielded holds every paragraph of every cell the table reports exactly
\* once, with the cell's first position.
VisitedOnce(yielded, tbl) ==
  \A ci \in 1..Len(tbl.kids) :
    PositionsOf(tbl, ci) # {} =>
      \A j \in 1..Len(cell_paragraphs(tbl.kids[ci])) :
        /\ Cardinality({k \in 1..Len(yielded) :
                          yielded[k].para.id = cell_paragraphs(tbl.kids[ci])[j].id}) = 1
        /\ \A k \in 1..Len(yielded) :
             yielded[k].para.id = cell_paragraphs(tbl.kids[ci])[j].id =>
               FirstOf(PositionsOf(tbl, ci), <<yielded[k].tinfo[1], yielded[k].tinfo[2]>>)

\* C14: the traversal of a table by the commenter and by the reader visits
\* every distinct cell exactly once, at its first position: the paragraphs of
\* a cell merged across columns or across rows are yielded once only.
C14_CellsVisitedOnce ==
  \A i \in 1..Len(doc) :
    doc[i].tag = "tbl" =>
      /\ VisitedOnce(helper_table_paragraphs(doc[i]), doc[i])
      /\ VisitedOnce(reader_table_paragraphs(doc[i]), doc[i])

\* The IDs are a contiguous ascending range.
Contiguous(ids) == \A j \in 1..(Len(ids) - 1) : ids[j + 1] = ids[j] + 1

\* C15: a request of a batch that lists several run IDs which are not a
\* contiguous ascending range is not applied: nothing is attached for it and
\* it counts as a failure.
C15_GapRequestRejected ==
  [][(CallStep /\ pc = "batch" /\ Len(last'.c.run_ids) > 1
        /\ ~Contiguous(last'.c.run_ids)) =>
       /\ ~last'.ok /\ ~last'.invoked
       /\ comments' = comments
       /\ successes' = successes
       /\ failures' = failures + 1]_vars

\* children2 is children after the split sp of the child at index i (from 1):
\* the original stays at i with a prefix of its text, the target and the after
\* fragment are the next two children and carry the rest of the text, two
\* children were added and every other child is as it was, in its order.
SplitFrame(children, children2, sp, i) ==
  /\ children[i] = sp.run
  /\ Len(children2) = Len(children) + 2
  /\ children2[i] = [children[i] EXCEPT !.text = children2[i].text]
  /\ children2[i + 1].tag = "r" /\ children2[i + 1].id = sp.target
  /\ children2[i + 2].tag = "r" /\ children2[i + 2].id # sp.target
  /\ \A j \in 1..Len(children) :
       children[j].id \notin {children2[i + 1].id, children2[i + 2].id}
  /\ children2[i].text \o children2[i + 1].text \o children2[i + 2].text
       = children[i].text
  /\ \A j \in 1..(i - 1) : children2[j] = children[j]
  /\ \A j \in (i + 1)..Len(children) : children2[j + 2] = children[j]

EmptyAfterKept(children, sp) ==
  \E i \in 1..(Len(children) - 3) :
    /\ children[i].id = sp.run.id
    /\ children[i].text # <<>>
    /\ children[i + 1].id = sp.target
    /\ children[i + 2].text = <<>>
    /\ children[i + 3].id < 100

C17_SplitShiftsHigherIds ==
  [][(CallStep /\ last'.splits # <<>>) =>
       /\ TotalRuns(doc') = TotalRuns(doc) + 2
       /\ Resolved(doc', last'.splits[1].gid + 1) = last'.splits[1].target
       /\ Resolved(doc', last'.splits[1].gid + 2) = nextId + 1
       /\ \A j \in (last'.splits[1].gid + 1)..(TotalRuns(doc) - 1) :
            Resolved(doc', j + 2) = Resolved(doc, j)]_vars

\* The text between the range markers of a comment: the texts of the runs
\* from the first to the last run the comment was attached to, in the
\* commenter's order (rt is RunTexts of the tree).
CoveredText(rt, cm) ==
  LET lo == CHOOSE k \in 1..Len(rt) :
              /\ rt[k][1] = cm.runs[1]
              /\ \A m \in 1..(k - 1) : rt[m][1] # cm.runs[1]
      hi == CHOOSE k \in 1..Len(rt) :
              /\ rt[k][1] = cm.runs[Len(cm.runs)]
              /\ \A m \in (k + 1)..Len(rt) : rt[m][1] # cm.runs[Len(cm.runs)]
  IN  Flatten([k \in 1..(hi - lo + 1) |-> rt[lo + k - 1][2]])

\* The batch holds a sub-string request on one run with text that existed
\* when the batch started, and w is a request without sub-string, on runs
\* that existed, that names this run; the set of such runs.
SplitRunsNamedBy(w) ==
  {K \in 0..(Len(orig) - 1) :
     /\ strip(orig[K + 1].text) # <<>>
     /\ \E i \in 1..Len(batch) :
          batch[i].subset_text # <<>> /\ batch[i].run_ids = <<K>>
     /\ w.subset_text = <<>>
     /\ \E j \in 1..Len(w.run_ids) : w.run_ids[j] = K
     /\ \A j \in 1..Len(w.run_ids) : w.run_ids[j] \in 0..(Len(orig) - 1)}

\* C18: when a batch holds a sub-string request on run K and a request
\* without sub-string that names K, then (in a batch where doc.add_comment
\* never raised) the comment of the latter is attached, and to text that
\* covers the whole original text of run K, whatever the order of the two in
\* the batch.
C18_WholeRunCommentCoversRun ==
  [][(CallStep /\ pc = "batch" /\ last'.raises = 0) =>
       \A K \in SplitRunsNamedBy(last'.c) :
         /\ last'.ok
         /\ Contains(CoveredText(RunTexts(doc'), comments'[Len(comments')]),
                     orig[K + 1].text)]_vars

\* needle occurs in hay at position p (from 0).
OccursAt(hay, needle, p) ==
  /\ p + Len(needle) <= Len(hay)
  /\ SubSeq(hay, p + 1, p + Len(needle)) = needle

\* s1 and s2 occur in the text, up to case, at positions that do not overlap.
OccurApart(text, s1, s2) ==
  \E p1, p2 \in 0..Len(text) :
    /\ OccursAt(lower(text), lower(s1), p1)
    /\ OccursAt(lower(text), lower(s2), p2)
    /\ p1 + Len(s1) <= p2 \/ p2 + Len(s2) <= p1

\* The request c got a comment, attached to one run whose text is the
\* sub-string of c up to case (rt is RunTexts of the tree).
CommentOnSubset(rt, c) ==
  \E m \in 1..Len(comments) :
    /\ comments[m].text = c.text
    /\ Len(comments[m].runs) = 1
    /\ \E k \in 1..Len(rt) :
         /\ rt[k][1] = comments[m].runs[1]
         /\ lower(rt[k][2]) = lower(c.subset_text)

\* C19: when a batch holds two sub-string requests on one run K whose
\* sub-strings (not blank) occur in the original text of K at positions that
\* do not overlap, then (in a batch where doc.add_comment never raised) both
\* succeed and each comment is attached to a fragment whose text is its own
\* sub-string up to case, in whichever order the two were submitted.
C19_TwoSplitsOfOneRun ==
  (pc = "done" /\ last.raises = 0) =>
    \A i \in 1..Len(batch) : \A j \in 1..Len(batch) :
      ( /\ i # j
        /\ batch[i].subset_text # <<>> /\ batch[j].subset_text # <<>>
        /\ strip(batch[i].subset_text) # <<>> /\ strip(batch[j].subset_text) # <<>>
        /\ Len(batch[i].run_ids) = 1
        /\ batch[i].run_ids = batch[j].run_ids
        /\ batch[i].run_ids[1] \in 0..(Len(orig) - 1)
        /\ OccurApart(orig[batch[i].run_ids[1] + 1].text,
                      batch[i].subset_text, batch[j].subset_text) ) =>
        /\ Len(batch) = 2 => result = <<2, 0>>
        /\ CommentOnSubset(RunTexts(doc), batch[i])
        /\ CommentOnSubset(RunTexts(doc), batch[j])

====
